---- MODULE Spec2Model ----
(***************************************************************************)
(* Model of src/ingest.py: the ingestion script of sp-violence-heatmap.    *)
(*                                                                         *)
(* A file name is the sequence of its dot-separated components             *)
(* (<<"a","csv">> is a.csv), so Path.stem and Path.suffix are computed as  *)
(* pathlib computes them.  File contents are byte sequences over 0..4:     *)
(* 0 is the newline, 1..4 are one-byte fields.  RAW_DIR and PROC_DIR are   *)
(* functions from the names of the files they hold to the contents.        *)
(***************************************************************************)
EXTENDS Integers, Sequences, FiniteSets, TLC

\* ------------------------------------------------------------------ bounds
\* the runs of a behaviour download or ingest at most MaxCalls files in all
MaxCalls == 2

\* ------------------------------------------------------- scaled constants
\* sha256_file reads 1024 * 1024 bytes at a time; scaled to the model's files
ReadChunk == 2
\* download_file writes 1024 * 256 bytes at a time; scaled likewise
DownloadChunk == 2
\* width of the modelled digest (SHA-256 has 256 bits)
DigestBits == 16

\* ------------------------------------------------------------- file names
None == <<>>

ACsv == <<"a", "csv">>
AJson == <<"a", "json">>
BXlsx == <<"b", "xlsx">>
CTxt == <<"c", "TXT">>

\* Path.suffix, without its dot: the last component, "" when there is none
suffix(name) == IF Len(name) >= 2 THEN name[Len(name)] ELSE ""

\* Path.stem: the name without its suffix
stem(name) == IF Len(name) >= 2 THEN SubSeq(name, 1, Len(name) - 1) ELSE name

\* str.lower on the extensions in use
lower(s) ==
    CASE s = "CSV" -> "csv"
      [] s = "TXT" -> "txt"
      [] s = "JSON" -> "json"
      [] OTHER -> s

\* ---------------------------------------------------------------- hashing
\* hashlib's h.update(chunk): absorb the bytes of chunk into the state h
RECURSIVE update(_, _)
update(h, chunk) ==
    IF chunk = <<>> THEN h
    ELSE update((h * 31 + Head(chunk) + 1) % (2 ^ DigestBits), Tail(chunk))

\* the digest of a whole byte string, hashlib.sha256(bytes)
SHA256(bytes) == update(7, bytes)

\* f.read(n) at offset pos
read(bytes, pos, n) ==
    SubSeq(bytes, pos + 1, IF pos + n <= Len(bytes) THEN pos + n ELSE Len(bytes))

RECURSIVE sha256_loop(_, _, _)
sha256_loop(h, bytes, pos) ==
    LET chunk == read(bytes, pos, ReadChunk)
    IN  IF chunk = <<>> THEN h
        ELSE sha256_loop(update(h, chunk), bytes, pos + Len(chunk))

\* a faulty sha256_file that hashes the first chunk only
sha256_first_chunk(bytes) == update(7, read(bytes, 0, ReadChunk))

\* sha256_file: h.update over the chunks f.read yields until it yields b""
sha256_file(bytes) == sha256_loop(7, bytes, 0)

\* ------------------------------------------------------------ sniff_format
sniff_format(name) ==
    LET ext == lower(suffix(name))
    IN  IF ext \in {"csv"} THEN "csv"
        ELSE IF ext \in {"json", "geojson"} THEN "json"
        ELSE IF ext \in {"xlsx", "xls"} THEN "excel"
        ELSE IF ext \in {"parquet"} THEN "parquet"
        ELSE "unknown"

\* ------------------------------------------------------------------ frames
Range(s) == {s[k] : k \in DOMAIN s}

\* the column a one-byte header field names
ColName(c) ==
    CASE c = 1 -> "a"
      [] c = 2 -> "b"
      [] c = 3 -> "source_file"
      [] OTHER -> "ingested_at"

\* bytes.split(newline), the empty lines dropped (the readers skip them)
RECURSIVE lines(_, _)
lines(bytes, cur) ==
    IF bytes = <<>> THEN (IF cur = <<>> THEN <<>> ELSE <<cur>>)
    ELSE IF Head(bytes) = 0
         THEN (IF cur = <<>> THEN <<>> ELSE <<cur>>) \o lines(Tail(bytes), <<>>)
         ELSE lines(Tail(bytes), Append(cur, Head(bytes)))

\* what a pandas reader returns: an error, or the frame of the file: the
\* first line names the columns and every further line is a row
decode(bytes) ==
    LET ls == lines(bytes, <<>>)
    IN  IF ls = <<>> THEN [err |-> "EmptyDataError"]
        ELSE [err |-> "",
              value |-> [kind |-> "DataFrame",
                         columns |-> [k \in DOMAIN ls[1] |-> ColName(ls[1][k])],
                         nrows |-> Len(ls) - 1,
                         cells |-> Tail(ls),
                         stamped |-> <<>>]]

\* the one sheet of the modelled workbooks
DefaultSheet == "Sheet1"

\* --excel-sheet left out (argparse's default, None)
NoSheet == "None"

\* pd.read_excel(path, sheet_name=...): sheet_name=None asks for every sheet
\* and returns a dict from sheet names to frames, a name returns that sheet
read_excel(bytes, sheet_name) ==
    LET d == decode(bytes)
    IN  IF d.err # "" THEN d
        ELSE IF sheet_name = NoSheet
             THEN [err |-> "", value |-> [kind |-> "dict", sheets |-> d.value, stamped |-> <<>>]]
        ELSE IF sheet_name = DefaultSheet THEN d
        ELSE [err |-> "ValueError"]

\* a faulty reader that reads a file of unknown format as CSV
read_any_lenient(name, bytes, excel_sheet) ==
    IF sniff_format(name) = "excel" THEN read_excel(bytes, excel_sheet) ELSE decode(bytes)

\* read_any(path, excel_sheet)
read_any(name, bytes, excel_sheet) ==
    LET fmt == sniff_format(name)
    IN  IF fmt = "csv" THEN decode(bytes)
        ELSE IF fmt = "json" THEN decode(bytes)
        ELSE IF fmt = "excel" THEN read_excel(bytes, excel_sheet)
        ELSE IF fmt = "parquet" THEN decode(bytes)
        ELSE [err |-> "ValueError"]

\* a faulty df[col] = value that always appends a column
setitem_append(df, col, value) ==
    IF df.kind = "dict" THEN [df EXCEPT !.stamped = (col :> value) @@ @]
    ELSE [df EXCEPT !.columns = Append(@, col), !.stamped = (col :> value) @@ @]

\* df[col] = value: a column of that name is overwritten where it stands,
\* a new name is appended as the last column (on a dict: a new key)
setitem(df, col, value) ==
    IF df.kind = "dict" THEN [df EXCEPT !.stamped = (col :> value) @@ @]
    ELSE [df EXCEPT !.columns = IF col \in Range(@) THEN @ ELSE Append(@, col),
                    !.stamped = (col :> value) @@ @]

\* ------------------------------------------------------------- ingest_one
RAW_DIR == "data/raw"
PROC_DIR == "data/processed/ingested"

\* the filesystem errors a call may meet: the write that is refused when it
\* opens its target (a permission error), none if "none"
Faults == {"none", "copy", "write_parquet", "write_metadata"}

\* raw_name or source_path.name
target_name(source, raw_name) == IF raw_name # None THEN raw_name ELSE source.name

\* source_path.exists()
exists(raw, source) ==
    IF source.dir = RAW_DIR THEN source.name \in DOMAIN raw ELSE source.present

\* a faulty copy that reads one chunk of the source only
read_bytes_one_chunk(raw, source) ==
    read(IF source.dir = RAW_DIR THEN raw[source.name] ELSE source.bytes, 0, ReadChunk)

\* source_path.read_bytes()
read_bytes(raw, source) ==
    IF source.dir = RAW_DIR THEN raw[source.name] ELSE source.bytes

\* source_path.resolve() != raw_path.resolve()
must_copy(source, target) == ~(source.dir = RAW_DIR /\ source.name = target)

\* f"{raw_path.stem}.parquet"
parquet_name(target) == stem(target) \o <<"parquet">>

\* f"{raw_path.stem}.meta.json"
meta_name(target) == stem(target) \o <<"meta", "json">>

\* the record of lines 127-133
base_meta(source, target, stored, t) ==
    [raw_file |-> [dir |-> RAW_DIR, name |-> target],
     original_path |-> [dir |-> source.dir, name |-> source.name],
     format |-> sniff_format(target),
     sha256 |-> sha256_file(stored),
     ingested_at |-> t]

\* the provenance columns of lines 138-140
stamp(df, target, t) ==
    setitem(setitem(df, "source_file", target), "ingested_at", t)

\* the three fields of lines 144-146
full_meta(meta, df, target) ==
    [parquet |-> [dir |-> PROC_DIR, name |-> parquet_name(target)],
     rows |-> df.nrows,
     columns |-> df.columns] @@ meta

\* write_parquet(df, out_path): df.to_parquet replaces the file at out_path
write_parquet(proc, df, out_path) == (out_path :> df) @@ proc

\* a faulty writer that leaves an existing record as it is
write_metadata_once(proc, meta, out_path) ==
    IF out_path \in DOMAIN proc THEN proc ELSE (out_path :> meta) @@ proc

\* write_metadata(meta, out_path): write_text replaces the file at out_path
write_metadata(proc, meta, out_path) == (out_path :> meta) @@ proc

\* a faulty test that converts whatever the flag says
convert_always(skip_parquet) == TRUE

\* the test of line 135
convert(skip_parquet) == ~skip_parquet

\* the outcome of a call: the directories after it, the exception that ended
\* it ("" when it returned) and the I/O it did ("utc_now": it read the clock)
Outcome(raw, proc, exc, did) == [raw |-> raw, proc |-> proc, exc |-> exc, did |-> did]

ingest_one(raw, proc, source, raw_name, excel_sheet, skip_parquet, t, fault) ==
    LET target == target_name(source, raw_name)
        copying == must_copy(source, target)
    IN
    IF ~exists(raw, source)
    THEN Outcome(raw, proc, "FileNotFoundError", {})
    ELSE IF copying /\ fault = "copy"
    THEN Outcome(raw, proc, "OSError", {})
    ELSE
    LET raw1 == IF copying THEN (target :> read_bytes(raw, source)) @@ raw ELSE raw
        did1 == IF copying THEN {"copy", "utc_now"} ELSE {"utc_now"}
        meta == base_meta(source, target, raw1[target], t)
        mpath == meta_name(target)
        ppath == parquet_name(target)
    IN
    IF convert(skip_parquet)
    THEN LET r == read_any(target, raw1[target], excel_sheet)
             did2 == did1 \cup {"read"}
         IN  IF r.err # ""
             THEN Outcome(raw1, proc, r.err, did2)
             ELSE LET df == stamp(r.value, target, t)
                      did3 == did2 \cup {"write_parquet"}
                  IN  IF df.kind # "DataFrame"
                      THEN Outcome(raw1, proc, "AttributeError", did2)
                      ELSE IF fault = "write_parquet"
                      THEN Outcome(raw1, proc, "OSError", did2)
                      ELSE IF fault = "write_metadata"
                      THEN Outcome(raw1, write_parquet(proc, df, ppath), "OSError", did3)
                      ELSE Outcome(raw1,
                                   write_metadata(write_parquet(proc, df, ppath),
                                                  full_meta(meta, df, target), mpath),
                                   "", did3 \cup {"write_metadata"})
    ELSE IF fault = "write_metadata"
         THEN Outcome(raw1, proc, "OSError", did1)
         ELSE Outcome(raw1, write_metadata(proc, meta, mpath), "",
                      did1 \cup {"write_metadata"})

\* ---------------------------------------------------------- download_file
\* the body split into the chunks r.iter_content yields
RECURSIVE iter_content(_)
iter_content(body) ==
    IF body = <<>> THEN <<>>
    ELSE IF Len(body) <= DownloadChunk THEN <<body>>
    ELSE <<SubSeq(body, 1, DownloadChunk)>>
             \o iter_content(SubSeq(body, DownloadChunk + 1, Len(body)))

RECURSIVE concat(_, _)
concat(chunks, n) == IF n = 0 THEN <<>> ELSE concat(chunks, n - 1) \o chunks[n]

\* download_file(url, dest) on a response: an error before dest is opened
\* (no requests module, an invalid URL, raise_for_status), or a body of
\* which resp.delivered chunks arrive before the connection ends
download_file(raw, dest, resp) ==
    IF resp.status # "ok" THEN [raw |-> raw, exc |-> resp.status, did |-> {}]
    ELSE LET chunks == iter_content(resp.body)
         IN  IF resp.delivered < Len(chunks)
             THEN [raw |-> (dest :> concat(chunks, resp.delivered)) @@ raw,
                   exc |-> "ConnectionError", did |-> {"download"}]
             ELSE [raw |-> (dest :> concat(chunks, Len(chunks))) @@ raw,
                   exc |-> "", did |-> {"download"}]

\* ------------------------------------------------------------------- main
\* the file contents of the modelled runs: a header and one row each
F1 == <<1, 0, 2, 0>>
F2 == <<3, 1, 0, 2>>
Files == {F1, F2}

\* a URL: the segments of its path and its query string
UrlA == [path |-> <<<<"example", "com">>, ACsv>>, query |-> "v=1"]
UrlEmpty == [path |-> <<>>, query |-> ""]
UrlArgs == {UrlA, UrlEmpty}
NameArgs == {AJson}
InputArgs == [dir : {"data_sources"}, name : {ACsv, BXlsx, CTxt}]
SheetArgs == {NoSheet, DefaultSheet}

SeqsUpTo(S, n) == UNION {[1..m -> S] : m \in 0..n}

\* whether some file of the run is read as a workbook
reads_excel(a) ==
    \/ \E k \in DOMAIN a.input : sniff_format(a.input[k].name) = "excel"
    \/ \E k \in DOMAIN a.name : sniff_format(a.name[k]) = "excel"

\* what argparse can return when at most n files are named in all: --name
\* is given up to once more than --url, and a sheet is named only in runs
\* that read a workbook (no other run reads the option)
ArgSets(n) ==
    {a \in UNION {[url : [1..nu -> UrlArgs], name : SeqsUpTo(NameArgs, nu + 1),
                   input : SeqsUpTo(InputArgs, n - nu), excel_sheet : SheetArgs,
                   skip_parquet : BOOLEAN] : nu \in 0..n} :
        a.excel_sheet # NoSheet => reads_excel(a)}

\* the responses a GET of url can meet
Responses(url) ==
    IF url.path = <<>> THEN {[status |-> "MissingSchema"]}
    ELSE {[status |-> "HTTPError"]}
         \cup UNION {{[status |-> "ok", body |-> b, delivered |-> d] :
                          d \in 0..Len(iter_content(b))} : b \in Files}

\* Path(url.split("?")[0]).name
url_name(url) == IF url.path = <<>> THEN None ELSE url.path[Len(url.path)]

\* f"download_{i}"
download_name(i) ==
    CASE i = 0 -> <<"download_0">>
      [] i = 1 -> <<"download_1">>
      [] OTHER -> <<"download_n">>

\* line 172
fname_of(a, k) ==
    IF a.name # <<>> THEN a.name[k + 1]
    ELSE IF url_name(a.url[k + 1]) # None THEN url_name(a.url[k + 1])
    ELSE download_name(k)

\* a faulty test that only misses names
names_mismatch_fewer(a) ==
    a.url # <<>> /\ a.name # <<>> /\ Len(a.name) < Len(a.url)

\* the tests of lines 166-167
names_mismatch(a) ==
    a.url # <<>> /\ a.name # <<>> /\ Len(a.name) # Len(a.url)

VARIABLES
    raw,       \* RAW_DIR: file name -> bytes
    proc,      \* PROC_DIR: file name -> frame or metadata record
    dirs,      \* whether ensure_dirs has made the two directories
    now,       \* the second utc_now_iso gave last
    pc,        \* "idle", "running" (in main's loops) or "exited"
    args,      \* the parsed arguments of the current run
    i,         \* the URLs handled so far
    j,         \* the local inputs handled so far
    code,      \* the exit code of the run that ended last (1: uncaught exception)
    io,        \* history: the kinds of I/O the current run has done
    last,      \* history: the loop iteration the current run carried out last
    calls      \* history: the loop iterations of all runs

vars == <<raw, proc, dirs, now, pc, args, i, j, code, io, last, calls>>

NoArgs == [url |-> <<>>, name |-> <<>>, input |-> <<>>, excel_sheet |-> NoSheet,
           skip_parquet |-> FALSE]
NoCall == [kind |-> "none"]

Init ==
    /\ raw = <<>>
    /\ proc = <<>>
    /\ dirs = FALSE
    /\ now = 0
    /\ pc = "idle"
    /\ args = NoArgs
    /\ i = 0
    /\ j = 0
    /\ code = 0
    /\ io = {}
    /\ last = NoCall
    /\ calls = 0

\* what utc_now_iso gives next: the iterations are taken to be at least a
\* second apart, and the next second stands for every later one
utc_now_iso == {now + 1}

\* main up to its loops: parse_args, ensure_dirs, the --name test
MainStart ==
    /\ pc # "running"
    /\ \E a \in ArgSets(MaxCalls - calls) :
        /\ args' = a
        /\ IF names_mismatch(a)
           THEN pc' = "exited" /\ code' = 2
           ELSE pc' = "running" /\ code' = 0
    /\ dirs' = TRUE
    /\ io' = {"mkdir"}
    /\ i' = 0
    /\ j' = 0
    /\ last' = NoCall
    /\ UNCHANGED <<raw, proc, now, calls>>

\* the record kept of an ingest_one call: the file it was to store, the
\* bytes of its source, the exception that ended it, and whether PROC_DIR
\* held the record of an earlier ingestion of that file when it began
Call(how, target, original, exc) ==
    [kind |-> how, target |-> target, original |-> original, exc |-> exc,
     again |-> /\ meta_name(target) \in DOMAIN proc
               /\ proc[meta_name(target)].raw_file.name = target]

\* what ends an iteration: the next one, or the uncaught exception
After(out) ==
    /\ raw' = out.raw
    /\ proc' = out.proc
    /\ io' = io \cup out.did
    /\ calls' = calls + 1
    /\ IF out.exc = ""
       THEN pc' = "running" /\ code' = code
       ELSE pc' = "exited" /\ code' = 1
    /\ UNCHANGED <<dirs, args>>

\* one iteration of the loop of lines 171-178
Download ==
    /\ pc = "running"
    /\ i < Len(args.url)
    /\ LET fname == fname_of(args, i)
           dest == [dir |-> RAW_DIR, name |-> fname]
       IN  \E resp \in Responses(args.url[i + 1]), fault \in Faults, t \in utc_now_iso :
             LET d == download_file(raw, fname, resp)
                 out == ingest_one(d.raw, proc, dest, fname, args.excel_sheet,
                                   args.skip_parquet, t, fault)
             IN  IF d.exc # ""
                 THEN /\ After([raw |-> d.raw, proc |-> proc, exc |-> d.exc, did |-> d.did])
                      /\ last' = [kind |-> "download", target |-> fname, exc |-> d.exc]
                      /\ now' = now
                 ELSE /\ After([out EXCEPT !.did = @ \cup d.did])
                      /\ last' = Call("url", fname, resp.body, out.exc)
                      /\ now' = IF "utc_now" \in out.did THEN t ELSE now
    /\ i' = i + 1
    /\ j' = j

\* the files a local path may name: absent, or holding one of Files
OnDisk(path) ==
    IF path.dir = RAW_DIR THEN {path}
    ELSE {[dir |-> path.dir, name |-> path.name, present |-> FALSE, bytes |-> <<>>]}
         \cup {[dir |-> path.dir, name |-> path.name, present |-> TRUE, bytes |-> b] :
                   b \in Files}

\* one iteration of the loop of lines 181-185
Local ==
    /\ pc = "running"
    /\ i = Len(args.url)
    /\ j < Len(args.input)
    /\ \E source \in OnDisk(args.input[j + 1]), fault \in Faults, t \in utc_now_iso :
         LET out == ingest_one(raw, proc, source, None, args.excel_sheet,
                               args.skip_parquet, t, fault)
         IN  /\ After(out)
             /\ now' = IF "utc_now" \in out.did THEN t ELSE now
             /\ last' = Call("local", source.name,
                             IF source.dir = RAW_DIR
                             THEN (IF source.name \in DOMAIN raw THEN raw[source.name]
                                   ELSE <<>>)
                             ELSE source.bytes,
                             out.exc)
    /\ j' = j + 1
    /\ i' = i

\* main after its loops: lines 187-192
Finish ==
    /\ pc = "running"
    /\ i = Len(args.url)
    /\ j = Len(args.input)
    /\ pc' = "exited"
    /\ code' = IF args.url = <<>> /\ args.input = <<>> THEN 2 ELSE 0
    /\ UNCHANGED <<raw, proc, dirs, now, args, i, j, io, last, calls>>

Next == MainStart \/ Download \/ Local \/ Finish

Spec == Init /\ [][Next]_vars

\* ----------------------------------------------------------------- claims
IsCall == last.kind \in {"local", "url"}
Returned == IsCall /\ last.exc = ""

\* failures of the environment rather than of the file: a missing source, a
\* refused write
EnvErrors == {"FileNotFoundError", "OSError"}

Recognized == {"csv", "json", "geojson", "xlsx", "xls", "parquet"}
Supported(name) == lower(suffix(name)) \in Recognized

IsMetaFile(f) == Len(f) >= 3 /\ f[Len(f) - 1] = "meta" /\ f[Len(f)] = "json"
MetaFiles == {f \in DOMAIN proc : IsMetaFile(f)}
ProcStem(f) ==
    IF IsMetaFile(f) THEN SubSeq(f, 1, Len(f) - 2) ELSE SubSeq(f, 1, Len(f) - 1)
StemFiles(st) == {f \in DOMAIN proc : ProcStem(f) = st}

\* the second a file of PROC_DIR was written at (each iteration has its own)
WrittenAt(f) ==
    IF IsMetaFile(f) THEN proc[f].ingested_at ELSE proc[f].stamped["ingested_at"]

\* the raw file a file of PROC_DIR was made from
MadeFrom(f) ==
    IF IsMetaFile(f) THEN proc[f].raw_file.name ELSE proc[f].stamped["source_file"]

\* file f of PROC_DIR holds what the call recorded in last computed
Fresh(f) ==
    /\ f \in DOMAIN proc
    /\ WrittenAt(f) = now
    /\ MadeFrom(f) = last.target
    /\ IF IsMetaFile(f) THEN proc[f].sha256 = SHA256(raw[last.target])
       ELSE proc[f].cells = decode(raw[last.target]).value.cells

LastMeta == meta_name(last.target)
LastParquet == parquet_name(last.target)

\* C1: when ingest_one returns for a supported local file, the raw file named
\* after it holds the bytes of the original, and the sha256 of the metadata
\* record the call wrote is the SHA-256 of those stored bytes.
C1_RawCopyAndChecksum ==
    (last.kind = "local" /\ last.exc = "" /\ Supported(last.target)) =>
        /\ last.target \in DOMAIN raw
        /\ raw[last.target] = last.original
        /\ LastMeta \in DOMAIN proc
        /\ proc[LastMeta].ingested_at = now
        /\ proc[LastMeta].sha256 = SHA256(raw[last.target])

C1_Witness ==
    /\ last.kind = "local" /\ last.exc = "" /\ Supported(last.target)
    /\ Len(last.original) > ReadChunk
    /\ LastMeta \in DOMAIN proc

\* C2 (as claimed): after any ingestions, for every stem of a successfully
\* ingested file (the file a metadata record names) exactly one raw file and
\* exactly one metadata record of that stem exist, and the standardized output
\* of that stem exists when the ingestion converted.
C2_OneRawOneRecordPerStem ==
    \A f \in MetaFiles :
        LET st == stem(proc[f].raw_file.name)
        IN  /\ Cardinality({n \in DOMAIN raw : stem(n) = st}) = 1
            /\ Cardinality({g \in MetaFiles : ProcStem(g) = st}) = 1
            /\ "parquet" \in DOMAIN proc[f] => st \o <<"parquet">> \in DOMAIN proc

\* C3 (as claimed): after a successful ingestion of a raw name ingested
\* before, every file of that stem in PROC_DIR holds what this ingestion
\* computed, and there is no further file of that stem.
C3_EveryFileOverwritten ==
    (Returned /\ last.again) =>
        /\ \A f \in StemFiles(stem(last.target)) : Fresh(f)
        /\ StemFiles(stem(last.target)) \subseteq {LastMeta, LastParquet}

\* C3 (amended): after a successful ingestion of a raw name ingested before,
\* the metadata record of that stem holds what this ingestion computed, and so
\* does the standardized output unless this ingestion skipped conversion;
\* there is no further file of that stem.
C3_OverwrittenUnlessSkipped ==
    (Returned /\ last.again) =>
        /\ Fresh(LastMeta)
        /\ ~args.skip_parquet => Fresh(LastParquet)
        /\ StemFiles(stem(last.target)) \subseteq {LastMeta, LastParquet}

C3_Witness ==
    /\ Returned /\ last.again /\ ~args.skip_parquet
    /\ Fresh(LastMeta) /\ Fresh(LastParquet)

\* C4 (as claimed): a run given --name at least once and a number of times
\* other than --url, whatever --input holds, ends with exit code 2 and
\* downloads, copies and writes nothing (runs that an uncaught exception
\* ends, code 1, are left aside).
C4_NameCountMismatchExits2 ==
    (pc # "idle" /\ code # 1 /\ args.name # <<>> /\ Len(args.name) # Len(args.url)) =>
        /\ pc = "exited" => code = 2
        /\ io \subseteq {"mkdir"}

\* C5 (as claimed): ingesting a file of unrecognized extension fails with the
\* unsupported-format error after the raw copy is written, and produces no
\* standardized output and no metadata record.
C5_UnknownAlwaysFails ==
    (IsCall /\ ~Supported(last.target) /\ last.exc \notin EnvErrors) =>
        /\ last.exc = "ValueError"
        /\ last.target \in DOMAIN raw /\ raw[last.target] = last.original
        /\ \A f \in DOMAIN proc : WrittenAt(f) # now

\* C5 (amended): with conversion not skipped, ingesting a file of
\* unrecognized extension fails with the unsupported-format error after the
\* raw copy is written and produces no standardized output and no metadata
\* record; with --skip-parquet the ingestion succeeds and writes a metadata
\* record of format "unknown" and no standardized output.
C5_UnknownFailsUnlessSkipped ==
    (IsCall /\ ~Supported(last.target) /\ last.exc \notin EnvErrors) =>
        /\ last.target \in DOMAIN raw /\ raw[last.target] = last.original
        /\ IF args.skip_parquet
           THEN /\ last.exc = ""
                /\ Fresh(LastMeta) /\ proc[LastMeta].format = "unknown"
                /\ \A f \in DOMAIN proc : WrittenAt(f) = now => f = LastMeta
           ELSE /\ last.exc = "ValueError"
                /\ \A f \in DOMAIN proc : WrittenAt(f) # now

C5_Witness ==
    /\ IsCall /\ ~Supported(last.target) /\ ~args.skip_parquet
    /\ last.exc = "ValueError" /\ "copy" \in io
    /\ raw[last.target] = last.original

\* the provenance names the decoded columns cols do not have, in order
Missing(cols) ==
    SelectSeq(<<"source_file", "ingested_at">>, LAMBDA c : c \notin Range(cols))

\* C6 (as claimed): after an ingestion that converted, whatever the decoded
\* column names, the record's rows is the row count of the decoded input and
\* its columns are the decoded names followed by source_file, ingested_at.
C6_ProvenanceAlwaysAppended ==
    (Returned /\ ~args.skip_parquet) =>
        LET d == decode(raw[last.target]).value
        IN  /\ proc[LastMeta].rows = d.nrows
            /\ proc[LastMeta].columns = d.columns \o <<"source_file", "ingested_at">>

\* C6 (amended): after an ingestion that converted, the record's rows is the
\* row count of the decoded input and its columns are the decoded names
\* followed by those of source_file, ingested_at (in that order) that the
\* decoded input does not have: a decoded column of either name keeps its
\* place (and is overwritten) instead of being appended.
C6_ProvenanceAppendedIfMissing ==
    (Returned /\ ~args.skip_parquet) =>
        LET d == decode(raw[last.target]).value
        IN  /\ proc[LastMeta].rows = d.nrows
            /\ proc[LastMeta].columns = d.columns \o Missing(d.columns)

C6_Witness ==
    /\ Returned /\ ~args.skip_parquet
    /\ Missing(decode(raw[last.target]).value.columns) = <<"source_file", "ingested_at">>
    /\ proc[LastMeta].ingested_at = now

\* C7: a run with --skip-parquet calls no reader and writes no standardized
\* output, and an ingestion of it that returns has written only the raw copy
\* and a metadata record without the fields parquet, rows and columns.
C7_SkipWritesRawAndMetadataOnly ==
    args.skip_parquet =>
        /\ io \cap {"read", "write_parquet"} = {}
        /\ Returned =>
            /\ raw[last.target] = last.original
            /\ Fresh(LastMeta)
            /\ DOMAIN proc[LastMeta] \cap {"parquet", "rows", "columns"} = {}
            /\ \A f \in DOMAIN proc : WrittenAt(f) = now => f = LastMeta

C7_Witness ==
    /\ args.skip_parquet /\ Returned
    /\ "copy" \in io /\ "write_metadata" \in io
    /\ LastParquet \notin DOMAIN proc

\* C8 (as claimed): ingesting a workbook with no --excel-sheet and conversion
\* not skipped succeeds and writes the standardized output and the record.
C8_ExcelDefaultSheetIngests ==
    (/\ IsCall /\ lower(suffix(last.target)) \in {"xlsx", "xls"}
     /\ args.excel_sheet = NoSheet /\ ~args.skip_parquet
     /\ last.exc \notin EnvErrors) =>
        /\ last.exc = ""
        /\ Fresh(LastParquet)
        /\ Fresh(LastMeta)

\* a run that meets one of the two usage errors of main
UsageError(a) ==
    \/ a.url # <<>> /\ a.name # <<>> /\ Len(a.name) # Len(a.url)
    \/ a.url = <<>> /\ a.input = <<>>

\* C9 (as claimed): a run that ends with a usage error returns 2 and has done
\* no filesystem or network operation of any kind, directory creation
\* included.
C9_UsageErrorBeforeAnyIO ==
    (pc = "exited" /\ UsageError(args)) => (code = 2 /\ io = {})

\* C9 (amended): a run that ends with a usage error returns 2 and has
\* downloaded, copied, read and written nothing; the one filesystem operation
\* before the tests is ensure_dirs, which makes the two directories.
C9_UsageErrorAfterEnsureDirsOnly ==
    (pc # "idle" /\ UsageError(args)) =>
        /\ pc = "exited" => code = 2
        /\ io = {"mkdir"}
        /\ dirs

C9_Witness ==
    /\ pc = "exited" /\ code = 2 /\ io = {"mkdir"}
    /\ args.url # <<>> /\ Len(args.name) > Len(args.url)
    /\ DOMAIN raw # {}

\* C10 (as claimed): after any attempts, failed ones included, every metadata
\* record in PROC_DIR carries the sha256 of the raw file it names as that file
\* is stored now.
C10_EveryRecordCurrent ==
    \A f \in MetaFiles :
        /\ proc[f].raw_file.name \in DOMAIN raw
        /\ proc[f].sha256 = SHA256(raw[proc[f].raw_file.name])

\* C10 (amended): every metadata record carries, when it is written, the
\* sha256 of the raw file it names as that file is stored at that moment (a
\* later attempt that overwrites the raw file and fails leaves the record
\* with the older checksum).
C10_RecordCurrentWhenWritten ==
    [][\A f \in DOMAIN proc' :
          (IsMetaFile(f) /\ (f \notin DOMAIN proc \/ proc'[f] # proc[f])) =>
              /\ proc'[f].raw_file.name \in DOMAIN raw'
              /\ proc'[f].sha256 = SHA256(raw'[proc'[f].raw_file.name])]_vars

C10_Witness ==
    /\ last.kind = "url" /\ last.exc = "" /\ last.again
    /\ Len(raw[last.target]) > ReadChunk
    /\ proc[LastMeta].sha256 = SHA256(raw[last.target])

====
